---------------------------- MODULE Spec2Model ----------------------------
(***************************************************************************)
(* MiningPool (ironfish/src/mining/pool.ts) as a state machine.            *)
(*                                                                         *)
(* The pool runs on one cooperative executor: every action below is the    *)
(* code between two suspension points (an await, a timer callback, an      *)
(* event callback).  The upstream node (rpc), the stratum server, the      *)
(* share subsystem and the webhooks are collaborators whose code is not    *)
(* in pool.ts; what the pool can observe of them is modelled from their    *)
(* contracts.                                                              *)
(***************************************************************************)
EXTENDS Integers, Sequences, FiniteSets, Bags, TLC

VARIABLES
    \* ---- lifecycle fields of MiningPool
    started,                    \* this.started
    stopPromise,                \* this.stopPromise / this.stopResolve: 0 is null, k the promise made by the k-th start
    connectWarned,              \* this.connectWarned
    connectTimeout,             \* this.connectTimeout: "null", "armed", or "dead" (a fired or cleared token)
    recalculateTargetInterval,  \* this.recalculateTargetInterval: "null", "armed" or "dead"
    notifyStatusInterval,       \* this.notifyStatusInterval: "null", "armed" or "dead"
    \* ---- the executor: suspended calls and timers the fields no longer name
    startConts,                 \* start() calls suspended at await shares.start()
    stopConts,                  \* stop() calls suspended at await shares.stop(), each with the promise current when it was called
    connectPending,             \* startConnectingRpc() calls suspended at await rpc.tryConnect()
    connectLeaked,              \* armed connect timers that this.connectTimeout no longer names
    statusLeaked,               \* armed status intervals that this.notifyStatusInterval no longer names
    resolved,                   \* the stop promises that have been resolved
    waiters,                    \* the stop promises some waitForStop() caller is suspended on
    releases,                   \* waitForStop() releases so far: which promise, by the stop() of which run, pool running or not
    \* ---- collaborators
    stratumListening,           \* stratum.start() / stratum.stop()
    stratumAwaitingWork,        \* stratum.waitForWork() until the next newWork
    rpcSubscribed,              \* rpc.onClose has onDisconnectRpc
    rpcConnected,               \* the upstream socket is open
    consumers,                  \* processNewBlocks() loops reading a live template stream
    \* ---- work distribution
    nextMiningRequestId,        \* this.nextMiningRequestId
    miningRequestBlocks,        \* this.miningRequestBlocks: LRU, oldest first, of [id, obj]
    latestHeader,               \* header.target / header.timestamp of the most recently cached template object
    currentHeadTimestamp,       \* this.currentHeadTimestamp
    currentHeadDifficulty,      \* this.currentHeadDifficulty
    recentSubmissions,          \* this.recentSubmissions: clientId -> sequence of randomness
    newWorkCalls,               \* the stratum.newWork calls so far, each with what the pool's state was at the call
    \* ---- submissions
    calls,                      \* the bag of submitWork calls that passed the duplicate check: arguments, where suspended, effects
    \* ---- observation
    retargets,                  \* epochs published by recalculateTarget
    warnsSince,                 \* connect-failure warnings logged since the last successful connection
    failsSince,                 \* failed connect attempts seen while started since then, counted up to Saturation
    discsSince,                 \* poolDisconnected notifications since then, counted up to Saturation
    clock,                      \* the retarget interval: ms since it was armed or last fired, ms since the last ingestion, and armed timers no handle refers to
    abandoned,                  \* of the calls counted by connectPending, those that were pending when a stop() went past its guard
    returnedEarly,              \* what the call of the last step found at its guard, or "none"
    watch                       \* which of the observation variables are kept: never changes

vars == << started, stopPromise, connectWarned, connectTimeout, recalculateTargetInterval,
           notifyStatusInterval, startConts, stopConts, connectPending, connectLeaked,
           statusLeaked, resolved, waiters, releases, stratumListening,
           stratumAwaitingWork, rpcSubscribed, rpcConnected, consumers,
           nextMiningRequestId, miningRequestBlocks, latestHeader, currentHeadTimestamp,
           currentHeadDifficulty, recentSubmissions, newWorkCalls, calls, retargets,
           warnsSince, failsSince, discsSince, abandoned, clock, returnedEarly, watch >>

lifeVars == << started, stopPromise, connectWarned, connectTimeout, recalculateTargetInterval,
               notifyStatusInterval, startConts, stopConts, connectPending, connectLeaked,
               statusLeaked, resolved, waiters, releases, stratumListening,
               stratumAwaitingWork, rpcSubscribed, rpcConnected, consumers >>

workVars == << nextMiningRequestId, miningRequestBlocks, latestHeader, currentHeadTimestamp,
               currentHeadDifficulty, recentSubmissions, newWorkCalls, retargets >>

outageVars == << warnsSince, failsSince, discsSince >>

-----------------------------------------------------------------------------
(* Program constants *)

\* a cache built one entry larger
LargerCache == 12 + 1

\* new LeastRecentlyUsed(12)
CacheCapacity == 12

RECALCULATE_TARGET_TIMEOUT == 10000

TickMs == RECALCULATE_TARGET_TIMEOUT \div 2

\* the time since the last ingestion is kept up to the interval's second firing
ClockHorizon == 2 * RECALCULATE_TARGET_TIMEOUT

\* null for the number-valued fields currentHeadTimestamp / currentHeadDifficulty
Null == -1

\* this.target: the pool's share threshold, fixed at construction
PoolTarget == 2

\* config.get('poolStatusNotificationInterval')
PoolStatusNotificationInterval == 1

-----------------------------------------------------------------------------
(* Inputs *)

Clients == {1, 2}

\* client.graffiti of each stratum client
Graffiti(c) == c

\* randomness strings a miner may send; those of NotHex are not hex strings
Randomness == {1, 2}
NotHex == {2}

\* wall-clock readings of new Date()
Times == {1, 3}

\* what the upstream template stream yields: header fields and previousBlockInfo
Payloads ==
    { [target |-> 1, timestamp |-> 1, prevTarget |-> 1, prevTimestamp |-> 0],
      [target |-> 2, timestamp |-> 1, prevTarget |-> 2, prevTimestamp |-> 0] }


-----------------------------------------------------------------------------
(* Target arithmetic, header encoding, hashing, the LRU cache *)

\* the largest target; target and difficulty are reciprocal through it
MaxTargetValue == 4

Max(a, b) == IF a >= b THEN a ELSE b

Min(a, b) == IF a <= b THEN a ELSE b

\* Target.toDifficulty
ToDifficulty(t) == MaxTargetValue \div t

\* Target.fromDifficulty
FromDifficulty(d) == MaxTargetValue \div d

\* Target.calculateDifficulty: the difficulty falls once enough time has passed
\* since the previous block, and never below that of the maximal pool target
CalculateDifficulty(time, previousBlockTimestamp, previousBlockDifficulty) ==
    IF time - previousBlockTimestamp >= 2
    THEN Max(previousBlockDifficulty \div 2, ToDifficulty(PoolTarget))
    ELSE previousBlockDifficulty

\* mineableHeaderString: the bytes of a header, or a throw on a field that is not hex
Malformed == << >>
MineableHeaderString(header) ==
    IF header.randomness \in NotHex
    THEN Malformed
    ELSE << header.randomness, header.graffiti, header.target, header.timestamp >>

\* blake3 over the header bytes, as the number the targets are compared with
Blake3(bytes) == (bytes[1] + 3 * bytes[2] + bytes[3] + bytes[4]) % 4

\* hashedHeader.compare(target) !== 1
Meets(digest, target) == digest <= target

RECURSIVE Without(_, _)
Without(cache, id) ==
    IF cache = << >> THEN << >>
    ELSE IF Head(cache).id = id THEN Without(Tail(cache), id)
    ELSE << Head(cache) >> \o Without(Tail(cache), id)

LruHas(cache, id) == \E i \in 1..Len(cache) : cache[i].id = id

LruObj(cache, id) == (CHOOSE i \in 1..Len(cache) : cache[i].id = id)

\* LeastRecentlyUsed.set: the entry becomes the most recently inserted one;
\* beyond the capacity the least recently inserted entry is evicted
LruSet(cache, id, obj) ==
    LET put == Without(cache, id) \o << [id |-> id, obj |-> obj] >>
    IN  IF Len(put) > CacheCapacity THEN Tail(put) ELSE put

\* LeastRecentlyUsed.get: the object cached under id, or Null; a read does not
\* count for the recency
LruGet(cache, id) ==
    IF LruHas(cache, id) THEN cache[LruObj(cache, id)].obj ELSE Null

-----------------------------------------------------------------------------
(* Observation *)

\* The observation variables record what the pool has done (calls it made on
\* its collaborators, lines it logged); the pool never reads them.  A
\* specification keeps those named in watch and leaves the others as they are.
Watched(what, new, old) == IF what \in watch THEN new ELSE old

\* whether the specification keeps the time: without it an armed interval may
\* fire at any moment
Timed == "clock" \in watch

\* the observation counters stop counting at Saturation
Saturation == 2
UpTo(n) == IF n > Saturation THEN Saturation ELSE n

-----------------------------------------------------------------------------
(* Construction *)

EmptyMap == [c \in {} |-> << >>]

Constructed ==
    /\ started = FALSE
    /\ stopPromise = 0
    /\ connectWarned = FALSE
    /\ connectTimeout = "null"
    /\ recalculateTargetInterval = "null"
    /\ notifyStatusInterval = "null"
    /\ startConts = 0
    /\ stopConts = {}
    /\ connectPending = 0
    /\ connectLeaked = 0
    /\ statusLeaked = 0
    /\ resolved = {}
    /\ waiters = {}
    /\ releases = {}
    /\ stratumListening = FALSE
    /\ stratumAwaitingWork = FALSE
    /\ rpcSubscribed = FALSE
    /\ rpcConnected = FALSE
    /\ consumers = 0
    /\ nextMiningRequestId = 0
    /\ miningRequestBlocks = << >>
    /\ latestHeader = [target |-> Null, timestamp |-> Null]
    /\ currentHeadTimestamp = Null
    /\ currentHeadDifficulty = Null
    /\ recentSubmissions = EmptyMap
    /\ newWorkCalls = << >>
    /\ calls = EmptyBag
    /\ retargets = 0
    /\ warnsSince = 0
    /\ failsSince = 0
    /\ discsSince = 0
    /\ abandoned = 0
    /\ clock = [elapsed |-> 0, since |-> Null, leaked |-> 0]
    /\ returnedEarly = "none"

Init ==
    /\ Constructed
    /\ watch = {"noop"}

-----------------------------------------------------------------------------
(* Lifecycle: start, stop, waitForStop *)

\* clearTimeout / clearInterval of a field that holds a token
Cleared(token) == IF token = "armed" THEN "dead" ELSE token

\* a start() without its guard
StartAlwaysProceeds == FALSE

\* start(): if (this.started) return
StartReturnsEarly == started

\* start() up to await this.shares.start()
StartCall ==
    IF StartReturnsEarly
    THEN /\ returnedEarly' = Watched("noop", "start", "none")
         /\ UNCHANGED << lifeVars, workVars, outageVars, calls, abandoned, clock >>
    ELSE /\ stopPromise' = stopPromise + 1
         /\ started' = TRUE
         /\ startConts' = startConts + 1
         /\ returnedEarly' = "none"
         /\ UNCHANGED << connectWarned, connectTimeout, recalculateTargetInterval,
                         notifyStatusInterval, stopConts, connectPending, connectLeaked,
                         statusLeaked, resolved, waiters, releases, stratumListening,
                         stratumAwaitingWork, rpcSubscribed, rpcConnected, consumers,
                         workVars, outageVars, calls, abandoned, clock >>

\* start() after await this.shares.start(): stratum.start(), rpc.onClose.on,
\* the status interval, void this.startConnectingRpc() up to its await
StartResume ==
    /\ startConts > 0
    /\ startConts' = startConts - 1
    /\ stratumListening' = TRUE
    /\ rpcSubscribed' = TRUE
    /\ IF PoolStatusNotificationInterval > 0
       THEN /\ notifyStatusInterval' = "armed"
            /\ statusLeaked' = statusLeaked + (IF notifyStatusInterval = "armed" THEN 1 ELSE 0)
       ELSE UNCHANGED << notifyStatusInterval, statusLeaked >>
    /\ connectPending' = connectPending + 1
    /\ returnedEarly' = "none"
    /\ UNCHANGED << started, stopPromise, connectWarned, connectTimeout,
                    recalculateTargetInterval, stopConts, connectLeaked, resolved, waiters,
                    releases, stratumAwaitingWork, rpcConnected, consumers,
                    workVars, outageVars, calls, abandoned, clock >>

\* stop(): if (!this.started) return
StopReturnsEarly == ~started

\* stop() up to await this.shares.stop(): unsubscribe, rpc.close() (which ends
\* the template streams), stratum.stop()
StopBody(how) ==
    IF StopReturnsEarly
    THEN /\ returnedEarly' = Watched("noop", "stop", "none")
         /\ UNCHANGED << lifeVars, workVars, outageVars, calls, abandoned, clock >>
    ELSE /\ started' = FALSE
         /\ rpcSubscribed' = FALSE
         /\ rpcConnected' = FALSE
         /\ consumers' = 0
         /\ stratumListening' = FALSE
         /\ stopConts' = stopConts \cup {stopPromise}
         /\ abandoned' = Watched("abandoned", connectPending, abandoned)
         /\ returnedEarly' = "none"
         /\ UNCHANGED << stopPromise, connectWarned, connectTimeout,
                         recalculateTargetInterval, notifyStatusInterval, startConts,
                         connectPending, connectLeaked, statusLeaked, resolved, waiters,
                         releases, stratumAwaitingWork, workVars, outageVars, calls, clock >>

StopCall == StopBody("stop")

\* stop() after await this.shares.stop(): stopResolve(), then the three clears.
\* g is the promise that was current when this stop() was called.
StopResume(g) ==
    /\ g \in stopConts
    /\ stopConts' = stopConts \ {g}
    /\ resolved' = resolved \cup {stopPromise}
    /\ waiters' = waiters \ {stopPromise}
    /\ releases' = IF stopPromise \in waiters
                   THEN releases \cup {[promise |-> stopPromise, by |-> g, running |-> started]}
                   ELSE releases
    /\ connectTimeout' = Cleared(connectTimeout)
    /\ recalculateTargetInterval' = Cleared(recalculateTargetInterval)
    /\ notifyStatusInterval' = Cleared(notifyStatusInterval)
    /\ returnedEarly' = "none"
    /\ UNCHANGED << started, stopPromise, connectWarned, startConts, connectPending,
                    connectLeaked, statusLeaked, stratumListening, stratumAwaitingWork,
                    rpcSubscribed, rpcConnected, consumers, workVars, outageVars, calls, abandoned, clock >>

\* waitForStop(): await this.stopPromise; null or an already resolved promise
\* does not suspend the caller
WaitForStop ==
    /\ waiters' = IF stopPromise = 0 \/ stopPromise \in resolved
                  THEN waiters
                  ELSE waiters \cup {stopPromise}
    /\ returnedEarly' = "none"
    /\ UNCHANGED << started, stopPromise, connectWarned, connectTimeout,
                    recalculateTargetInterval, notifyStatusInterval, startConts, stopConts,
                    connectPending, connectLeaked, statusLeaked, resolved, releases,
                    stratumListening, stratumAwaitingWork, rpcSubscribed, rpcConnected,
                    consumers, workVars, outageVars, calls, abandoned, clock >>

\* the status interval fires: notifyStatus() reads the pool and notifies the webhooks
NotifyStatus ==
    /\ notifyStatusInterval = "armed" \/ statusLeaked > 0
    /\ returnedEarly' = "none"
    /\ UNCHANGED << lifeVars, workVars, outageVars, calls, abandoned, clock >>

-----------------------------------------------------------------------------
(* The upstream connection loop *)

\* a connect loop that warns at every failed attempt
AlwaysWarns == TRUE

\* startConnectingRpc(): if (!this.connectWarned) warn
WarnsNow == ~connectWarned

\* startConnectingRpc() after await this.rpc.tryConnect(); the attempt ends as
\* the upstream decides, and the code that follows runs in the same turn
ConnectResolve(connected) ==
    /\ connectPending > 0
    /\ rpcConnected' = (connected \/ rpcConnected)
    /\ \E old \in BOOLEAN :
          /\ IF old THEN abandoned > 0 ELSE connectPending > abandoned
          /\ abandoned' = (IF old THEN abandoned - 1 ELSE abandoned)
          /\ returnedEarly' = (IF old /\ started
                               THEN (IF connected THEN "abandoned:connected"
                                                  ELSE "abandoned:retry")
                               ELSE "none")
    /\ IF ~started
       THEN /\ connectPending' = connectPending - 1
            /\ UNCHANGED << connectWarned, connectTimeout, connectLeaked, consumers, outageVars >>
       ELSE IF ~connected
       THEN /\ connectPending' = connectPending - 1
            /\ warnsSince' = Watched("outage", warnsSince + (IF WarnsNow THEN 1 ELSE 0), warnsSince)
            /\ connectWarned' = (IF WarnsNow THEN TRUE ELSE connectWarned)
            /\ failsSince' = Watched("outage", UpTo(failsSince + 1), failsSince)
            /\ connectLeaked' = connectLeaked + (IF connectTimeout = "armed" THEN 1 ELSE 0)
            /\ connectTimeout' = "armed"
            /\ UNCHANGED << consumers, discsSince >>
       ELSE /\ connectPending' = connectPending - 1
            /\ connectWarned' = FALSE
            /\ consumers' = consumers + 1
            /\ warnsSince' = 0
            /\ failsSince' = 0
            /\ discsSince' = 0
            /\ UNCHANGED << connectTimeout, connectLeaked >>
    /\ UNCHANGED << started, stopPromise, recalculateTargetInterval, notifyStatusInterval,
                    startConts, stopConts, statusLeaked, resolved, waiters, releases,
                    stratumListening, stratumAwaitingWork, rpcSubscribed, workVars, calls,
                    clock >>

\* a 5000 ms connect timer fires: the one this.connectTimeout names, or an
\* earlier one that a later setTimeout has replaced in the field
\* a retry timer whose callback does not start a connect attempt
TimerFiresForNothing(named) ==
    /\ IF named
       THEN /\ connectTimeout = "armed"
            /\ connectTimeout' = "dead"
            /\ UNCHANGED connectLeaked
       ELSE /\ connectLeaked > 0
            /\ connectLeaked' = connectLeaked - 1
            /\ UNCHANGED connectTimeout
    /\ returnedEarly' = "none"
    /\ UNCHANGED << started, stopPromise, connectWarned, recalculateTargetInterval,
                    notifyStatusInterval, startConts, stopConts, connectPending, statusLeaked,
                    resolved, waiters, releases, stratumListening, stratumAwaitingWork,
                    rpcSubscribed, rpcConnected, consumers, workVars, outageVars, calls,
                    abandoned, clock >>

ConnectTimerFires(named) ==
    /\ IF named
       THEN /\ connectTimeout = "armed"
            /\ connectTimeout' = "dead"
            /\ UNCHANGED connectLeaked
       ELSE /\ connectLeaked > 0
            /\ connectLeaked' = connectLeaked - 1
            /\ UNCHANGED connectTimeout
    /\ connectPending' = connectPending + 1
    /\ returnedEarly' = "none"
    /\ UNCHANGED << started, stopPromise, connectWarned, recalculateTargetInterval,
                    notifyStatusInterval, startConts, stopConts, statusLeaked, resolved,
                    waiters, releases, stratumListening, stratumAwaitingWork, rpcSubscribed,
                    rpcConnected, consumers, workVars, outageVars, calls, abandoned, clock >>

\* the upstream closes the connection: the template streams end, and
\* onDisconnectRpc runs if it is subscribed
CloseSignal ==
    /\ rpcConnected
    /\ rpcConnected' = FALSE
    /\ consumers' = 0
    /\ IF rpcSubscribed
       THEN /\ stratumAwaitingWork' = TRUE
            /\ discsSince' = Watched("outage", UpTo(discsSince + 1), discsSince)
            /\ connectPending' = connectPending + 1
            /\ returnedEarly' = "none"
       ELSE /\ returnedEarly' = "none"
            /\ UNCHANGED << stratumAwaitingWork, discsSince, connectPending >>
    /\ UNCHANGED << started, stopPromise, connectWarned, connectTimeout,
                    recalculateTargetInterval, notifyStatusInterval, startConts, stopConts,
                    connectLeaked, statusLeaked, resolved, waiters, releases,
                    stratumListening, rpcSubscribed, workVars, warnsSince, failsSince, calls, abandoned, clock >>

-----------------------------------------------------------------------------
(* Work distribution *)

\* distributeNewBlock without this.nextMiningRequestId++
IdNotAdvanced(cache, obj) ==
    LET miningRequestId == nextMiningRequestId
        cache1 == LruSet(cache, miningRequestId, obj)
    IN  [ next  |-> nextMiningRequestId,
          cache |-> cache1,
          subs  |-> EmptyMap,
          newWork |-> [ id |-> miningRequestId,
                        obj |-> obj,
                        restarted |-> stopPromise > 1,
                        nextAtCall |-> nextMiningRequestId,
                        cachedAtCall |-> obj,
                        submissionsAtCall |-> EmptyMap ] ]

\* distributeNewBlock without the insert into the work cache
NotInserted(cache, obj) ==
    LET miningRequestId == nextMiningRequestId
        next1  == nextMiningRequestId + 1
        subs1  == EmptyMap
    IN  [ next  |-> next1,
          cache |-> cache,
          subs  |-> subs1,
          newWork |-> [ id |-> miningRequestId,
                        obj |-> obj,
                        restarted |-> stopPromise > 1,
                        nextAtCall |-> next1,
                        cachedAtCall |-> LruGet(cache, miningRequestId),
                        submissionsAtCall |-> subs1 ] ]

\* distributeNewBlock with the broadcast moved before the cache insert, the id
\* increment and the reset of the deduper
BroadcastFirst(cache, obj) ==
    LET miningRequestId == nextMiningRequestId
        cache1 == LruSet(cache, miningRequestId, obj)
    IN  [ next  |-> nextMiningRequestId + 1,
          cache |-> cache1,
          subs  |-> EmptyMap,
          newWork |-> [ id |-> miningRequestId,
                        obj |-> obj,
                        restarted |-> stopPromise > 1,
                        nextAtCall |-> nextMiningRequestId,
                        cachedAtCall |-> LruGet(cache, miningRequestId),
                        submissionsAtCall |-> recentSubmissions ] ]

\* distributeNewBlock(newBlock), given the cache as the caller left it: the
\* new field values, and what stratum.newWork is called with and when
DistributeNewBlock(cache, obj) ==
    LET miningRequestId == nextMiningRequestId
        next1  == nextMiningRequestId + 1
        cache1 == LruSet(cache, miningRequestId, obj)
        subs1  == EmptyMap
    IN  [ next  |-> next1,
          cache |-> cache1,
          subs  |-> subs1,
          newWork |-> [ id |-> miningRequestId,
                        obj |-> obj,
                        restarted |-> stopPromise > 1,
                        nextAtCall |-> next1,
                        cachedAtCall |-> LruGet(cache1, miningRequestId),
                        submissionsAtCall |-> subs1 ] ]

\* a restart that arms the new interval without clearing the one before
ArmedWithoutClearing ==
    [ interval |-> "armed",
      leaked   |-> clock.leaked + (IF recalculateTargetInterval = "armed" THEN 1 ELSE 0) ]

\* restartCalculateTargetInterval(): the interval the handle refers to is
\* cleared, then a new one is armed and the handle refers to it
RestartCalculateTargetInterval ==
    [ interval |-> "armed",
      leaked   |-> clock.leaked ]

\* processNewBlocks(): one turn of the for-await loop, with the payload a live
\* template stream yields
ProcessNewBlock(payload) ==
    /\ rpcConnected
    /\ consumers > 0
    /\ recalculateTargetInterval' = RestartCalculateTargetInterval.interval
    /\ clock' = [ elapsed |-> Watched("clock", 0, clock.elapsed),
                  since   |-> Watched("clock", 0, clock.since),
                  leaked  |-> RestartCalculateTargetInterval.leaked ]
    /\ currentHeadDifficulty' = ToDifficulty(payload.prevTarget)
    /\ currentHeadTimestamp' = payload.prevTimestamp
    /\ LET d == DistributeNewBlock(miningRequestBlocks, nextMiningRequestId)
       IN  /\ nextMiningRequestId' = d.next
           /\ miningRequestBlocks' = d.cache
           /\ recentSubmissions' = d.subs
           /\ newWorkCalls' = Watched("newWork", Append(newWorkCalls, d.newWork), newWorkCalls)
    /\ latestHeader' = [target |-> payload.target, timestamp |-> payload.timestamp]
    /\ stratumAwaitingWork' = FALSE
    /\ returnedEarly' = "none"
    /\ UNCHANGED << started, stopPromise, connectWarned, connectTimeout, notifyStatusInterval,
                    startConts, stopConts, connectPending, connectLeaked, statusLeaked,
                    resolved, waiters, releases, stratumListening, rpcSubscribed,
                    rpcConnected, consumers, retargets, outageVars, calls, abandoned >>

\* the template stream throws: the catch handler of processNewBlocks() calls stop()
StreamFatal ==
    /\ consumers > 0
    /\ StopBody("processNewBlocks:fatal")

\* a comparison that never finds the targets equal
NeverSameTarget(newTarget, existingTarget) == FALSE

\* recalculateTarget(): newTarget.asBigInt() === existingTarget
SameTarget(newTarget, existingTarget) == newTarget = existingTarget

\* a retarget that republishes a copy of the cached template
RetargetedCopy(latestBlock) == -2 - latestBlock

\* recalculateTarget(): the object handed to distributeNewBlock is the cached
\* template itself, its header mutated in place
Retargeted(latestBlock) == latestBlock

\* the recalculate interval fires: recalculateTarget() with new Date() = newTime
RecalculateTarget(newTime) ==
    /\ recalculateTargetInterval = "armed"
    /\ Timed => clock.elapsed = RECALCULATE_TARGET_TIMEOUT
    /\ clock' = [clock EXCEPT !.elapsed = Watched("clock", 0, @)]
    /\ IF LruGet(miningRequestBlocks, nextMiningRequestId - 1) = Null
       THEN /\ returnedEarly' = Watched("retarget", "noTemplate", "none")
            /\ UNCHANGED << workVars >>
       ELSE LET latestBlock == LruGet(miningRequestBlocks, nextMiningRequestId - 1)
                newTarget == FromDifficulty(
                                 CalculateDifficulty(newTime, currentHeadTimestamp,
                                                     currentHeadDifficulty))
                existingTarget == latestHeader.target
                found == IF newTarget = existingTarget THEN "sameTarget" ELSE "newTarget"
            IN  IF SameTarget(newTarget, existingTarget)
                THEN /\ returnedEarly' = Watched("retarget", found, "none")
                     /\ UNCHANGED << workVars >>
                ELSE LET d == DistributeNewBlock(miningRequestBlocks, Retargeted(latestBlock))
                     IN  /\ latestHeader' = [target |-> newTarget, timestamp |-> newTime]
                         /\ nextMiningRequestId' = d.next
                         /\ miningRequestBlocks' = d.cache
                         /\ recentSubmissions' = d.subs
                         /\ newWorkCalls' = Watched("newWork", Append(newWorkCalls, d.newWork), newWorkCalls)
                         /\ retargets' = Watched("retargets", retargets + 1, retargets)
                         /\ returnedEarly' = Watched("retarget", found, "none")
                         /\ UNCHANGED << currentHeadTimestamp, currentHeadDifficulty >>
    /\ stratumAwaitingWork' =
          (IF nextMiningRequestId' # nextMiningRequestId THEN FALSE ELSE stratumAwaitingWork)
    /\ UNCHANGED << started, stopPromise, connectWarned, connectTimeout,
                    recalculateTargetInterval, notifyStatusInterval, startConts, stopConts,
                    connectPending, connectLeaked, statusLeaked, resolved, waiters, releases,
                    stratumListening, rpcSubscribed, rpcConnected, consumers, outageVars, calls,
                    abandoned >>

\* RECALCULATE_TARGET_TIMEOUT / 2 ms pass with no callback due: the armed
\* interval is not overrun
Tick ==
    /\ Timed
    /\ recalculateTargetInterval = "armed" =>
          clock.elapsed + TickMs <= RECALCULATE_TARGET_TIMEOUT
    /\ clock' = [clock EXCEPT
                   !.elapsed = IF recalculateTargetInterval = "armed" THEN @ + TickMs ELSE @,
                   !.since   = IF @ = Null THEN Null ELSE Min(@ + TickMs, ClockHorizon)]
    /\ returnedEarly' = "none"
    /\ UNCHANGED << lifeVars, workVars, outageVars, calls, abandoned >>

-----------------------------------------------------------------------------
(* Submissions *)

\* a stale check that lets every id through to the cache lookup
NeverStale(miningRequestId) == FALSE

\* submitWork(): miningRequestId !== this.nextMiningRequestId - 1
IsStale(miningRequestId) == miningRequestId # nextMiningRequestId - 1

\* a duplicate check over one list of nonces shared by all clients
AnyClientSubmitted(submissions, clientId, randomness) ==
    \E c \in DOMAIN submissions :
        \E i \in 1..Len(submissions[c]) : submissions[c][i] = randomness

\* isDuplicateSubmission(clientId, randomness)
IsDuplicateSubmission(submissions, clientId, randomness) ==
    IF clientId \notin DOMAIN submissions
    THEN FALSE
    ELSE \E i \in 1..Len(submissions[clientId]) : submissions[clientId][i] = randomness

\* a submission that is not recorded before the first await
NotRecorded(submissions, clientId, randomness) == submissions

\* a submission recorded only once its header has been encoded
RecordedAfterEncode(submissions, clientId, randomness) ==
    IF randomness \in NotHex
    THEN submissions
    ELSE IF clientId \notin DOMAIN submissions
    THEN [c \in DOMAIN submissions \cup {clientId} |->
             IF c = clientId THEN << randomness >> ELSE submissions[c]]
    ELSE [submissions EXCEPT ![clientId] = Append(@, randomness)]

\* addWorkSubmission(clientId, randomness)
AddWorkSubmission(submissions, clientId, randomness) ==
    IF clientId \notin DOMAIN submissions
    THEN [c \in DOMAIN submissions \cup {clientId} |->
             IF c = clientId THEN << randomness >> ELSE submissions[c]]
    ELSE [submissions EXCEPT ![clientId] = Append(@, randomness)]

\* a submitWork call past the duplicate check: what it was called with, the
\* value of nextMiningRequestId when it was received, where it is suspended,
\* and the calls it has made: rpc.submitBlock, shares.submitShare,
\* stratum.peers.punish (its log lines and webhook are not recorded)
Call(client, miningRequestId, randomness) ==
    [ client |-> client, id |-> miningRequestId, randomness |-> randomness,
      receivedAt |-> nextMiningRequestId, pc |-> "done", digest |-> Null,
      submitBlock |-> 0, submitShare |-> 0, punish |-> 0 ]

\* submitWork(): the share check that ends every path past the block check
ShareCheck(call) ==
    IF Meets(call.digest, PoolTarget)
    THEN [call EXCEPT !.submitShare = @ + 1, !.pc = "submitShare"]
    ELSE [call EXCEPT !.pc = "done"]

\* an encoding failure that is swallowed without punishing the client
PunishSkipped(call, header) ==
    LET headerBytes == MineableHeaderString(header)
        hashed == [call EXCEPT !.digest = Blake3(headerBytes)]
    IN  IF headerBytes = Malformed
        THEN call
        ELSE IF Meets(hashed.digest, header.target)
        THEN [hashed EXCEPT !.submitBlock = 1, !.pc = "submitBlock"]
        ELSE ShareCheck(hashed)

\* submitWork() from the encoding of the composed header to the first await
\* or the return: punish on a throw, else hash, block check, share check
Encoded(call, header) ==
    LET headerBytes == MineableHeaderString(header)
        hashed == [call EXCEPT !.digest = Blake3(headerBytes)]
    IN  IF headerBytes = Malformed
        THEN [call EXCEPT !.punish = 1]
        ELSE IF Meets(hashed.digest, header.target)
        THEN [hashed EXCEPT !.submitBlock = 1, !.pc = "submitBlock"]
        ELSE ShareCheck(hashed)

\* submitWork() up to its first await
SubmitWork(client, miningRequestId, randomness) ==
    /\ IF IsStale(miningRequestId)
       THEN /\ returnedEarly' = Watched("dropped", "stale", "none")
            /\ UNCHANGED << recentSubmissions, calls >>
       ELSE IF LruGet(miningRequestBlocks, miningRequestId) = Null
       THEN /\ returnedEarly' = Watched("dropped", "invalid", "none")
            /\ UNCHANGED << recentSubmissions, calls >>
       ELSE IF IsDuplicateSubmission(recentSubmissions, client, randomness)
       THEN /\ returnedEarly' = Watched("dropped", "duplicate", "none")
            /\ UNCHANGED << recentSubmissions, calls >>
       ELSE LET call == Call(client, miningRequestId, randomness)
                header == [ target |-> latestHeader.target,
                            timestamp |-> latestHeader.timestamp,
                            graffiti |-> Graffiti(client),
                            randomness |-> randomness ]
            IN  /\ recentSubmissions' = AddWorkSubmission(recentSubmissions, client, randomness)
                /\ calls' = calls (+) SetToBag({ Encoded(call, header) })
                /\ returnedEarly' = "none"
    /\ UNCHANGED << lifeVars, nextMiningRequestId, miningRequestBlocks, latestHeader,
                    currentHeadTimestamp, currentHeadDifficulty, newWorkCalls, retargets,
                    outageVars, abandoned, clock >>

\* one suspended call runs on to its next await or to its return
Resumed(call, after) == (calls (-) SetToBag({call})) (+) SetToBag({after})

\* submitWork() after await this.rpc.submitBlock(blockTemplate)
SubmitBlockReturns(call, added) ==
    /\ BagIn(call, calls)
    /\ call.pc = "submitBlock"
    /\ calls' = Resumed(call, IF added
                              THEN [call EXCEPT !.pc = "estimateHashRate"]
                              ELSE ShareCheck(call))
    /\ returnedEarly' = "none"
    /\ UNCHANGED << lifeVars, workVars, outageVars, abandoned, clock >>

\* submitWork() after await this.estimateHashRate(): poolSubmittedBlock, then the share check
EstimateHashRateReturns(call) ==
    /\ BagIn(call, calls)
    /\ call.pc = "estimateHashRate"
    /\ calls' = Resumed(call, ShareCheck(call))
    /\ returnedEarly' = "none"
    /\ UNCHANGED << lifeVars, workVars, outageVars, abandoned, clock >>

\* submitWork() after await this.shares.submitShare(client.publicAddress)
SubmitShareReturns(call) ==
    /\ BagIn(call, calls)
    /\ call.pc = "submitShare"
    /\ calls' = Resumed(call, [call EXCEPT !.pc = "done"])
    /\ returnedEarly' = "none"
    /\ UNCHANGED << lifeVars, workVars, outageVars, abandoned, clock >>

-----------------------------------------------------------------------------
(* Specifications *)

\* A step keeps watch, and the exploration is cut where a count passes the
\* bound given for it.
Within(b) ==
    /\ stopPromise <= b.runs
    /\ nextMiningRequestId <= b.epochs
    /\ retargets <= b.retargets
    /\ BagCardinality(calls) <= b.submits

Bounded(b) == watch' = watch /\ Within(b)'

\* the ids miners submit for: the current epoch's and the one before
MiningRequestIds == {nextMiningRequestId - 1, nextMiningRequestId - 2}

\* start() and the connection loop up to the template stream
Connecting(b) ==
    \/ StartCall /\ Bounded(b)
    \/ StartResume /\ Bounded(b)
    \/ \E connected \in BOOLEAN : ConnectResolve(connected) /\ Bounded(b)
    \/ \E named \in BOOLEAN : ConnectTimerFires(named) /\ Bounded(b)

\* the two publishers of epochs: the template stream and the recalculate interval
Publishing(b) ==
    \/ \E payload \in Payloads : ProcessNewBlock(payload) /\ Bounded(b)
    \/ \E newTime \in Times : RecalculateTarget(newTime) /\ Bounded(b)

\* the upstream closing the connection, and the status interval
Disturbing(b) ==
    \/ CloseSignal /\ Bounded(b)
    \/ NotifyStatus /\ Bounded(b)

\* stop(), by a caller or by the template stream's failure
Stopping(b) ==
    \/ StopCall /\ Bounded(b)
    \/ \E g \in stopConts : StopResume(g) /\ Bounded(b)
    \/ StreamFatal /\ Bounded(b)

\* miners' submissions
Submitting(b) ==
    \/ \E c \in Clients, id \in MiningRequestIds, r \in Randomness :
          SubmitWork(c, id, r) /\ Bounded(b)
    \/ \E call \in BagToSet(calls), added \in BOOLEAN :
          SubmitBlockReturns(call, added) /\ Bounded(b)
    \/ \E call \in BagToSet(calls) : EstimateHashRateReturns(call) /\ Bounded(b)
    \/ \E call \in BagToSet(calls) : SubmitShareReturns(call) /\ Bounded(b)

\* ---- Spec: the lifecycle, with start() and stop() called at any time
MaxRuns == 2
MaxEpochs == 2

Bounds == [ runs |-> MaxRuns, epochs |-> MaxEpochs, retargets |-> MaxEpochs, submits |-> 0 ]

Next == Connecting(Bounds) \/ Publishing(Bounds) \/ Disturbing(Bounds) \/ Stopping(Bounds)

Spec == Init /\ [][Next]_vars

\* ---- SpecEpochs: the same, keeping the calls of stratum.newWork
InitEpochs == Constructed /\ watch = {"newWork"}

SpecEpochs == InitEpochs /\ [][Next]_vars

\* ---- SpecOutage: the lifecycle without templates, keeping the counts of warnings and notifications
InitOutage == Constructed /\ watch = {"outage"}

\* no step of Publishing reads or writes what the connection loop works on
NextOutage == Connecting(Bounds) \/ Disturbing(Bounds) \/ Stopping(Bounds)

SpecOutage == InitOutage /\ [][NextOutage]_vars

\* ---- SpecAbandoned: the lifecycle without templates, telling the connect
\* attempts that a stop() found pending from the later ones
InitAbandoned == Constructed /\ watch = {"abandoned"}

SpecAbandoned == InitAbandoned /\ [][NextOutage]_vars

\* ---- SpecWaiters: the same, with callers of waitForStop()
InitWaiters == Constructed /\ watch = {}

NextWaiters == Next \/ (WaitForStop /\ Bounded(Bounds))

SpecWaiters == InitWaiters /\ [][NextWaiters]_vars

\* ---- SpecSubmissions: miners submitting to a pool that is never stopped
MaxSubmits == 2
MaxSubmitEpochs == 2

SubmitBounds ==
    [ runs |-> 1, epochs |-> MaxSubmitEpochs, retargets |-> MaxSubmitEpochs,
      submits |-> MaxSubmits ]

InitSubmissions == Constructed /\ watch = {"newWork", "dropped", "retarget"}

NextSubmissions ==
    Connecting(SubmitBounds) \/ Publishing(SubmitBounds) \/ Submitting(SubmitBounds)

SpecSubmissions == InitSubmissions /\ [][NextSubmissions]_vars

\* ---- SpecLongRun: enough epochs to fill the work cache, in a pool that is never stopped
MaxLongEpochs == 13
MaxLongRetargets == 1

LongBounds ==
    [ runs |-> 1, epochs |-> MaxLongEpochs, retargets |-> MaxLongRetargets, submits |-> 0 ]

InitLongRun == Constructed /\ watch = {"retargets"}

NextLongRun == Connecting(LongBounds) \/ Publishing(LongBounds) \/ Disturbing(LongBounds)

SpecLongRun == InitLongRun /\ [][NextLongRun]_vars

-----------------------------------------------------------------------------
(* Submissions: stale ids, duplicates, publications *)

Processed == BagToSet(calls)

\* the calls of one client with one randomness received in one epoch, that is
\* while nextMiningRequestId had the value epoch
SameNonce(client, randomness, epoch) ==
    { call \in Processed : /\ call.client = client
                            /\ call.randomness = randomness
                            /\ call.receivedAt = epoch }

\* how often the calls of S have called the collaborator named by field
RECURSIVE Total(_, _)
Total(S, field) ==
    IF S = {}
    THEN 0
    ELSE LET call == CHOOSE x \in S : TRUE
         IN  calls[call] * call[field] + Total(S \ {call}, field)

\* C1: a submitWork call whose miningRequestId is not nextMiningRequestId - 1
\* when it is received earns no share, submits no block, punishes nobody and
\* records no nonce: every call that went past the checks, and every nonce
\* the deduper holds, came with the id that was current on receipt.
StaleSubmissionHasNoEffect ==
    /\ \A call \in Processed : call.id = call.receivedAt - 1
    /\ \A c \in DOMAIN recentSubmissions :
          \A i \in 1..Len(recentSubmissions[c]) :
              \E call \in SameNonce(c, recentSubmissions[c][i], nextMiningRequestId) :
                  call.id = nextMiningRequestId - 1

\* a submission for the previous epoch, whose template is still cached, has
\* just been dropped while the deduper and the credits of the epoch are there
StaleSubmissionDropped ==
    /\ returnedEarly = "stale"
    /\ nextMiningRequestId >= 2
    /\ recentSubmissions # EmptyMap
    /\ \E call \in Processed : call.submitShare = 1

\* C2: the submitWork calls of one epoch with the same client and randomness,
\* however they interleave at their awaits, together earn at most one share
\* and submit at most one block.
OneCreditPerNonce ==
    \A c \in Clients, r \in Randomness, epoch \in 0..nextMiningRequestId :
        /\ Total(SameNonce(c, r, epoch), "submitShare") <= 1
        /\ Total(SameNonce(c, r, epoch), "submitBlock") <= 1

\* the same nonce arrives again while the call that submitted a block with it
\* is suspended at an await, and is dropped
DuplicateWhileSuspended ==
    /\ returnedEarly = "duplicate"
    /\ \E call \in Processed : /\ call.receivedAt = nextMiningRequestId
                                /\ call.submitBlock = 1
                                /\ call.pc \in {"submitBlock", "estimateHashRate"}
                                /\ IsDuplicateSubmission(recentSubmissions, call.client,
                                                         call.randomness)

\* C3: a submission for the current epoch is taken for a duplicate exactly
\* when the same client has had the same randomness processed since the last
\* publication; neither an earlier epoch's nonce nor another client's counts.
DuplicateIffSameClientSameEpoch ==
    \A c \in Clients, r \in Randomness :
        IsDuplicateSubmission(recentSubmissions, c, r)
            <=> SameNonce(c, r, nextMiningRequestId) # {}

\* a client's nonce of the epoch before was processed again in this epoch,
\* and its third submission has just been dropped as a duplicate
NonceReusedAcrossEpochs ==
    /\ returnedEarly = "duplicate"
    /\ \E c \in Clients, r \in Randomness :
          /\ SameNonce(c, r, nextMiningRequestId) # {}
          /\ SameNonce(c, r, nextMiningRequestId - 1) # {}
          /\ \E other \in Clients : ~IsDuplicateSubmission(recentSubmissions, other, r)

\* C4: at every call of stratum.newWork(requestId, template), by ingestion or
\* by the retarget timer, requestId is nextMiningRequestId - 1, the cache maps
\* requestId to the template, and the deduper is empty.
PublicationIsAtomic ==
    \A i \in 1..Len(newWorkCalls) :
        /\ newWorkCalls[i].id = newWorkCalls[i].nextAtCall - 1
        /\ newWorkCalls[i].cachedAtCall = newWorkCalls[i].obj
        /\ newWorkCalls[i].submissionsAtCall = EmptyMap

\* the retarget timer has republished the template of an epoch in which a
\* submission had been recorded
RetargetPublishedAfterSubmission ==
    /\ Len(newWorkCalls) >= 2
    /\ newWorkCalls[2].obj = newWorkCalls[1].obj
    /\ \E call \in Processed : call.receivedAt = 1

-----------------------------------------------------------------------------
(* Request ids and the work cache *)

\* C5: nextMiningRequestId is 0 after construction, changes only by growing
\* by one, does so exactly when stratum.newWork is called, is left alone by
\* the steps of start() and stop(), and the ids broadcast are 0, 1, 2, ...
RequestIdsCountUp ==
    /\ nextMiningRequestId = 0
    /\ [](/\ Len(newWorkCalls) = nextMiningRequestId
          /\ \A i \in 1..Len(newWorkCalls) : newWorkCalls[i].id = i - 1)
    /\ [][/\ nextMiningRequestId' \in {nextMiningRequestId, nextMiningRequestId + 1}
          /\ (nextMiningRequestId' = nextMiningRequestId + 1
                 <=> Len(newWorkCalls') = Len(newWorkCalls) + 1)
          /\ (started' # started \/ stopPromise' # stopPromise \/ stopConts' # stopConts
                 \/ startConts' # startConts)
                => nextMiningRequestId' = nextMiningRequestId]_vars

\* id 0 was broadcast in the first run and id 1 after a stop() and a start()
IdsContinueAfterRestart ==
    /\ Len(newWorkCalls) >= 2
    /\ ~newWorkCalls[1].restarted
    /\ newWorkCalls[2].restarted
    /\ newWorkCalls[2].id = 1

\* C6, as the code has it: the cache never holds more than 12 entries, and
\* while the pool is started and connected it holds the entry of
\* nextMiningRequestId - 1 once an epoch has been published.
CacheHoldsCurrentEpoch ==
    /\ Len(miningRequestBlocks) <= 12
    /\ (started /\ rpcConnected /\ nextMiningRequestId > 0)
          => LruHas(miningRequestBlocks, nextMiningRequestId - 1)

\* the thirteenth epoch has been published and the first evicted
CacheFullAndEvicting ==
    /\ started /\ rpcConnected
    /\ nextMiningRequestId = 13
    /\ Len(miningRequestBlocks) = 12
    /\ ~LruHas(miningRequestBlocks, 0)

\* C6 as stated: at most 12 entries, and an entry for nextMiningRequestId - 1
\* whenever the pool is started and connected.
CacheHoldsCurrentEpochWheneverStreaming ==
    /\ Len(miningRequestBlocks) <= 12
    /\ (started /\ rpcConnected)
          => LruHas(miningRequestBlocks, nextMiningRequestId - 1)

-----------------------------------------------------------------------------
(* Lifecycle *)

\* C7 as stated, for the states in which no stop() is still under way: while
\* started is false no connect, retarget or status timer is armed, the
\* upstream connection is closed and the server is not listening.
StoppedIsQuiet ==
    (~started /\ stopConts = {})
        => /\ connectTimeout # "armed" /\ connectLeaked = 0
           /\ recalculateTargetInterval # "armed"
           /\ notifyStatusInterval # "armed" /\ statusLeaked = 0
           /\ ~rpcConnected
           /\ ~stratumListening

\* C8 as stated, its safety half: a caller of waitForStop() is released only
\* by the stop() of the run it waited on, and never while the pool is running.
ReleasedByOwnStop ==
    \A r \in releases : r.by = r.promise /\ ~r.running

\* no stop() has gone past its guard since construction
NeverStopped == started /\ stopConts = {} /\ resolved = {}

\* the connect loops under way: awaiting tryConnect, waiting for a retry
\* timer, or consuming the template stream
ConnectLoops ==
    connectPending + (IF connectTimeout = "armed" THEN 1 ELSE 0) + connectLeaked + consumers

\* C9: start() on a started pool and stop() on a stopped pool change nothing
\* and call no collaborator, so as long as only start() has been called there
\* is one start under way or done, and once done one status timer, one
\* close subscription and one connect loop.
StartStopIdempotent ==
    /\ [](NeverStopped =>
            /\ startConts + (IF stratumListening THEN 1 ELSE 0) = 1
            /\ statusLeaked = 0
            /\ IF stratumListening
               THEN notifyStatusInterval = "armed" /\ rpcSubscribed /\ ConnectLoops = 1
               ELSE notifyStatusInterval = "null" /\ ~rpcSubscribed /\ ConnectLoops = 0)
    /\ [][returnedEarly' \in {"start", "stop"}
            => UNCHANGED << lifeVars, workVars, calls >>]_vars

\* start() has just been called again on a pool that is streaming
StartCalledOnStreamingPool ==
    /\ returnedEarly = "start"
    /\ NeverStopped
    /\ consumers = 1
    /\ nextMiningRequestId > 0

-----------------------------------------------------------------------------
(* Outages *)

\* C10, as the code has it: from one successful connection (or construction)
\* to the next the connect-failure warning is logged once if an attempt has
\* failed and not at all otherwise, however many attempts fail; and
\* poolDisconnected is emitted by a close signal of the upstream reaching the
\* subscribed pool, once per signal, and never by a failed attempt.
OneWarningPerOutage ==
    /\ [](warnsSince = IF failsSince > 0 THEN 1 ELSE 0)
    /\ [][/\ discsSince' \notin {discsSince, 0}
                => /\ rpcConnected /\ ~rpcConnected' /\ rpcSubscribed
                   /\ UNCHANGED << warnsSince, failsSince >>
          /\ (rpcConnected /\ ~rpcConnected' /\ rpcSubscribed')
                => discsSince' = UpTo(discsSince + 1)]_vars

\* an outage that a close signal began, in which two attempts have failed
OutageWithRetries ==
    /\ started
    /\ failsSince >= 2
    /\ warnsSince = 1
    /\ discsSince = 1

\* C10 as stated: in an outage, once an attempt has failed, one warning has
\* been logged and one poolDisconnected emitted.
OneWarningOneNotificationPerOutage ==
    (started /\ failsSince > 0) => (warnsSince = 1 /\ discsSince = 1)

-----------------------------------------------------------------------------
(* Malformed submissions *)

\* the calls whose composed header mineableHeaderString refuses
FailedToEncode ==
    { call \in Processed :
        MineableHeaderString([ target |-> 0, timestamp |-> 0,
                               graffiti |-> Graffiti(call.client),
                               randomness |-> call.randomness ]) = Malformed }

\* C11: a submission for the current epoch whose header fails serialization
\* punishes the client, earns no share and submits no block; no other
\* submission punishes.
MalformedIsPunished ==
    \A call \in Processed :
        IF call \in FailedToEncode
        THEN /\ call.punish = 1
             /\ call.submitShare = 0
             /\ call.submitBlock = 0
             /\ call.pc = "done"
        ELSE call.punish = 0

\* a malformed submission was punished next to one that earned a share
MalformedAmongValid ==
    /\ \E call \in FailedToEncode : call.receivedAt = nextMiningRequestId
    /\ \E call \in Processed \ FailedToEncode : call.submitShare = 1

\* C19: a submission is in the deduper before its header is encoded: one
\* that failed to encode in the current epoch is a duplicate from then on,
\* and one client's randomness is punished at most once in an epoch.
MalformedIsRecorded ==
    /\ \A call \in FailedToEncode :
          call.receivedAt = nextMiningRequestId
              => IsDuplicateSubmission(recentSubmissions, call.client, call.randomness)
    /\ \A c \in Clients, r \in Randomness, epoch \in 0..nextMiningRequestId :
          Total(SameNonce(c, r, epoch), "punish") <= 1

\* the only submission of the epoch so far failed to encode, and the same
\* one sent again has just been dropped as a duplicate
MalformedSentTwice ==
    /\ returnedEarly = "duplicate"
    /\ \E call \in FailedToEncode :
          { other \in Processed : other.receivedAt = nextMiningRequestId } = {call}

-----------------------------------------------------------------------------
(* The retarget timer *)

\* C12: a firing of the retarget timer that computes the target the current
\* epoch's template already has changes nothing: no epoch, no newWork call,
\* the same nextMiningRequestId, cache, header and deduper.
SameTargetChangesNothing ==
    [][returnedEarly' = "sameTarget"
         => UNCHANGED << nextMiningRequestId, miningRequestBlocks, latestHeader,
                         recentSubmissions, newWorkCalls, currentHeadTimestamp,
                         currentHeadDifficulty, calls, lifeVars >>]_vars

\* the timer fired with an unchanged target while the deduper held a nonce
SameTargetWithSubmissions ==
    /\ returnedEarly = "sameTarget"
    /\ recentSubmissions # EmptyMap

\* C13: a firing that computes another target publishes exactly one epoch:
\* the id is the current one plus one, the template broadcast is the object
\* cached under the previous id, now with the new target and the firing time,
\* both ids map to it, and the deduper is reset.
NewTargetPublishesOneEpoch ==
    [][returnedEarly' = "newTarget"
         => /\ nextMiningRequestId' = nextMiningRequestId + 1
            /\ Len(newWorkCalls') = Len(newWorkCalls) + 1
            /\ newWorkCalls'[Len(newWorkCalls')].id = nextMiningRequestId
            /\ newWorkCalls'[Len(newWorkCalls')].obj
                  = LruGet(miningRequestBlocks, nextMiningRequestId - 1)
            /\ LruGet(miningRequestBlocks', nextMiningRequestId)
                  = LruGet(miningRequestBlocks', nextMiningRequestId - 1)
            /\ LruGet(miningRequestBlocks', nextMiningRequestId) # Null
            /\ \E newTime \in Times :
                  /\ latestHeader'.timestamp = newTime
                  /\ latestHeader'.target =
                        FromDifficulty(CalculateDifficulty(newTime, currentHeadTimestamp,
                                                           currentHeadDifficulty))
            /\ latestHeader'.target # latestHeader.target
            /\ recentSubmissions' = EmptyMap]_vars

\* the timer has just published a new target for an epoch in which a
\* submission had been processed
NewTargetAfterSubmission ==
    /\ returnedEarly = "newTarget"
    /\ \E call \in Processed : call.receivedAt = nextMiningRequestId - 1
    /\ recentSubmissions = EmptyMap

\* ---- SpecLongSubmissions: the long run with one submission and one retarget, keeping what each
\* submission and each retarget firing found
LongSubmitBounds ==
    [ runs |-> 1, epochs |-> MaxLongEpochs, retargets |-> 1, submits |-> 1 ]

InitLongSubmissions == Constructed /\ watch = {"retargets", "dropped", "retarget"}

NextLongSubmissions ==
    \/ Connecting(LongSubmitBounds)
    \/ Publishing(LongSubmitBounds)
    \/ Submitting(LongSubmitBounds)

SpecLongSubmissions == InitLongSubmissions /\ [][NextLongSubmissions]_vars

\* ---- SpecRetry: a pool that is started and never stopped.  The event loop
\* runs every callback that is due: shares.start() and tryConnect() settle,
\* and an armed retry timer fires.
MaxRetryEpochs == 4

RetryBounds == [ runs |-> 1, epochs |-> MaxRetryEpochs, retargets |-> MaxRetryEpochs, submits |-> 0 ]

InitRetry == Constructed /\ watch = {"outage"}

NextRetry == Connecting(RetryBounds) \/ Publishing(RetryBounds) \/ Disturbing(RetryBounds)

SpecRetry ==
    /\ InitRetry
    /\ [][NextRetry]_vars
    /\ WF_vars(StartResume /\ Bounded(RetryBounds))
    /\ WF_vars(\E connected \in BOOLEAN : ConnectResolve(connected) /\ Bounded(RetryBounds))
    /\ WF_vars(ConnectTimerFires(TRUE) /\ Bounded(RetryBounds))

\* ---- SpecClock: one run of the pool with the time kept, every step of it
\* RECALCULATE_TARGET_TIMEOUT / 2 ms long
ClockBounds == [ runs |-> 1, epochs |-> MaxEpochs, retargets |-> MaxEpochs, submits |-> 0 ]

InitClock == Constructed /\ watch = {"clock", "retarget"}

NextClock ==
    \/ Connecting(ClockBounds)
    \/ Publishing(ClockBounds)
    \/ Disturbing(ClockBounds)
    \/ Stopping(ClockBounds)
    \/ Tick /\ Bounded(ClockBounds)

SpecClock == InitClock /\ [][NextClock]_vars

-----------------------------------------------------------------------------
(* Connect attempts and stop() *)

\* C14 as stated: a connect attempt that was pending when stop() was called
\* does not, when it completes, connect the pool or schedule a retry.
AbandonedAttemptAborts ==
    returnedEarly \notin {"abandoned:connected", "abandoned:retry"}

\* C20 as stated: at most one connect loop and at most one consumer of the
\* template stream at any time.
OneLoopOneConsumer ==
    /\ ConnectLoops <= 1
    /\ consumers <= 1

-----------------------------------------------------------------------------
(* Publication and the state of the upstream *)

\* the coordinator's Streaming state: started, the upstream connected and a
\* consumer reading its template stream
Streaming ==
    /\ started
    /\ rpcConnected
    /\ consumers > 0

\* C17 as stated: an epoch is published (and newWork called) only while
\* Streaming; not after a close signal, and not once stop() has begun.
PublishesOnlyWhileStreaming ==
    [][nextMiningRequestId' # nextMiningRequestId => Streaming]_vars

-----------------------------------------------------------------------------
(* The current epoch in the work cache *)

\* C18: once an epoch has been published, the current epoch's template is
\* the most recently inserted entry of the work cache, so no submission that
\* passed the staleness check misses it and no firing of recalculateTarget
\* finds it missing; a submission is dropped as an invalid mining request
\* only before the first epoch (for id -1).
CurrentEpochIsNewestEntry ==
    /\ nextMiningRequestId > 0 =>
          /\ Len(miningRequestBlocks) > 0
          /\ miningRequestBlocks[Len(miningRequestBlocks)].id = nextMiningRequestId - 1
          /\ LruGet(miningRequestBlocks, nextMiningRequestId - 1) # Null
    /\ returnedEarly = "invalid" => nextMiningRequestId = 0
    /\ returnedEarly # "noTemplate"
    /\ \A call \in BagToSet(calls) : call.id >= 0

\* the cache is full and has evicted, a submission for the thirteenth epoch
\* has found its template and a retarget firing has found it too
SubmissionAfterEviction ==
    /\ nextMiningRequestId = 13
    /\ Len(miningRequestBlocks) = 12
    /\ ~LruHas(miningRequestBlocks, 0)
    /\ \E call \in BagToSet(calls) : call.id = 12
    /\ returnedEarly = "sameTarget"

-----------------------------------------------------------------------------
(* The connect loop of a pool that is not stopped *)

\* started, past await shares.start(), and not Streaming
InConnecting == started /\ startConts = 0 /\ ~Streaming

\* a step in which the upstream neither refuses a connect attempt nor closes
UpstreamReachable == ~ConnectResolve(FALSE) /\ ~CloseSignal

\* C15: in a pool that is started and never stopped, the connect loop is
\* never in Connecting without an attempt pending or a retry timer armed;
\* a close signal starts an attempt at once and a failed attempt's timer
\* leads to another attempt; and if the upstream eventually stays reachable,
\* the pool reaches Streaming.
ConnectLoopKeepsTrying ==
    /\ [](InConnecting => (connectPending > 0 \/ connectTimeout = "armed"))
    /\ [][CloseSignal => connectPending' > connectPending]_vars
    /\ (connectTimeout = "armed") ~> (connectPending > 0)
    /\ (<>[][UpstreamReachable]_vars) => (started ~> Streaming)

\* Streaming after a failed attempt whose retry timer has fired
StreamingAfterRetry ==
    /\ Streaming
    /\ connectTimeout = "dead"
    /\ nextMiningRequestId > 0

-----------------------------------------------------------------------------
(* The retarget interval *)

\* the step is a firing of recalculateTarget
RetargetFires == returnedEarly' \in {"sameTarget", "newTarget", "noTemplate"}

\* C16: every ingestion clears the retarget interval and arms a new one, so
\* at most one is armed at any time; the armed one is due 10 seconds after
\* the most recent ingestion (and every 10 seconds from then), and no
\* recalculation fires less than 10 seconds after the most recent ingestion.
OneRetargetTimerTenSecondsOn ==
    /\ [](clock.leaked = 0)
    /\ []((recalculateTargetInterval = "armed" /\ clock.since < ClockHorizon) =>
            /\ clock.since # Null
            /\ clock.elapsed <= RECALCULATE_TARGET_TIMEOUT
            /\ (clock.since - clock.elapsed) % RECALCULATE_TARGET_TIMEOUT = 0)
    /\ [][RetargetFires =>
            /\ clock.since >= RECALCULATE_TARGET_TIMEOUT
            /\ clock.elapsed = RECALCULATE_TARGET_TIMEOUT]_vars

\* the interval armed by the second ingestion has just fired, 10 seconds
\* after it
FiredTenSecondsAfterSecondIngestion ==
    /\ returnedEarly = "sameTarget"
    /\ nextMiningRequestId = 2
    /\ clock.since = RECALCULATE_TARGET_TIMEOUT
    /\ clock.elapsed = 0

====
